---- MODULE Spec2Model ----
(***************************************************************************)
(* Model of src/source/server.ts (universe:i18n, server side): the         *)
(* per-connection locale registry, the connection id resolver, the locale  *)
(* cache, the remote locale loader and the HTTP / RPC delivery endpoints.  *)
(***************************************************************************)
EXTENDS Integers, Sequences, FiniteSets, Bags, TLC

VARIABLES
    localesPerConnections, \* server.ts:51  connection id -> locale
    opened,                \* transport: ids for which onConnection has run
    closed,                \* transport: ids whose onClose callback has run
    sameLocaleOnServerConnection, \* i18n.options flag read at server.ts:215
    translationsHeaders,   \* i18n.options.translationsHeaders, server.ts:173
    cache,                 \* server.ts:55  locale -> cache entry
    translations,          \* the translation store fed by addTranslations
    now,                   \* the wall clock read by new Date()
    calls,                 \* the bag of loadLocale calls in flight
    asyncStore,            \* server.ts:36  what _publishConnectionId's
                           \* AsyncLocalStorage holds for the running code
    trees,                 \* the asynchronous call trees of the event loop
    handlers,              \* publications registered through Meteor.publish
    last                   \* the last completed operation and its outcome

vars == <<localesPerConnections, opened, closed, sameLocaleOnServerConnection,
          translationsHeaders, cache, translations, now, calls, asyncStore,
          trees, handlers, last>>

registryVars == <<localesPerConnections, opened, closed>>
deliveryVars == <<cache, translations, now, calls>>
contextVars == <<asyncStore, trees, handlers>>

----------------------------------------------------------------------------
(* JavaScript values that are not strings of the model's alphabet.         *)

Undefined == "<undefined>"
Throws == "<throws>"
NotAString == "<number 42>"

(* Reading obj[key] of a record-like object whose keys are own keys only.  *)
Lookup(obj, key) == IF key \in DOMAIN obj THEN obj[key] ELSE Undefined

(* The store's objects of a locale: none before the first merge. *)
Lookup2(obj, key) == IF key \in DOMAIN obj THEN obj[key] ELSE {}

(* delete obj[key] *)
DeleteKey(obj, key) == [k \in DOMAIN obj \ {key} |-> obj[k]]

(* obj[key] = value *)
AssignKey(obj, key, value) ==
    [k \in DOMAIN obj \cup {key} |-> IF k = key THEN value ELSE obj[k]]

----------------------------------------------------------------------------
(* Strings.  A string of the model is a TLA+ string; Chars gives its       *)
(* characters, on which the code's string operations are computed.         *)

Strings ==
    {"en", "en-US", "en_us", "en-us", "fr", "xx", "constructor"}

Chars(s) ==
    CASE s = "en" -> <<"e", "n">>
      [] s = "en-US" -> <<"e", "n", "-", "U", "S">>
      [] s = "en_us" -> <<"e", "n", "_", "u", "s">>
      [] s = "en-us" -> <<"e", "n", "-", "u", "s">>
      [] s = "fr" -> <<"f", "r">>
      [] s = "xx" -> <<"x", "x">>
      [] s = "constructor" ->
            <<"c", "o", "n", "s", "t", "r", "u", "c", "t", "o", "r">>
      [] s = "/en" -> <<"/", "e", "n">>
      [] s = "/en-US" -> <<"/", "e", "n", "-", "U", "S">>
      [] s = "/en_us" -> <<"/", "e", "n", "_", "u", "s">>
      [] s = "/fr.json" -> <<"/", "f", "r", ".", "j", "s", "o", "n">>
      [] s = "/xx" -> <<"/", "x", "x">>
      [] s = "/constructor" ->
            <<"/", "c", "o", "n", "s", "t", "r", "u", "c", "t", "o", "r">>
      [] s = "/" -> <<"/">>
      [] s = "/e" -> <<"/", "e">>
      [] s = "/7z" -> <<"/", "7", "z">>
      [] s = "" -> << >>

(* The string of the model with the given characters. *)
Str(cs) == CHOOSE s \in Strings \cup {""} : Chars(s) = cs

LowerLetters ==
    {"c", "e", "f", "j", "n", "o", "r", "s", "t", "u", "x", "z"}
UpperLetters == {"U", "S"}
Digits == {"7"}

toLowerCaseChar(c) ==
    CASE c = "U" -> "u"
      [] c = "S" -> "s"
      [] OTHER -> c

toLowerCase(cs) == [i \in 1..Len(cs) |-> toLowerCaseChar(cs[i])]

(* String.prototype.replace(from, to) with a string pattern: the first     *)
(* occurrence only.                                                        *)
replaceFirst(cs, from, to) ==
    IF \E i \in 1..Len(cs) : cs[i] = from
    THEN LET p == CHOOSE i \in 1..Len(cs) :
                    cs[i] = from /\ \A j \in 1..(i - 1) : cs[j] # from
         IN [i \in 1..Len(cs) |-> IF i = p THEN to ELSE cs[i]]
    ELSE cs

(* a.indexOf(b) === 0 *)
startsWith(a, b) ==
    LET ca == Chars(a)
        cb == Chars(b)
    IN Len(cb) <= Len(ca) /\ \A i \in 1..Len(cb) : ca[i] = cb[i]

(* The table of known locales, keyed by lower-case dashed code. *)
LOCALES == [k \in {"en", "en-us", "fr"} |->
              CASE k = "en" -> "en" [] k = "en-us" -> "en-US" [] k = "fr" -> "fr"]

(* i18n.normalize: the canonical code of a recognised locale, whatever the *)
(* case and the separator of its spelling; undefined otherwise.            *)
normalize(locale) ==
    LET key == replaceFirst(toLowerCase(Chars(locale)), "_", "-")
    IN IF \E k \in DOMAIN LOCALES : Chars(k) = key
       THEN LOCALES[CHOOSE k \in DOMAIN LOCALES : Chars(k) = key]
       ELSE Undefined

(* normalize over the strings of the model, computed once. *)
NormalizedOf == [s \in Strings |-> normalize(s)]

----------------------------------------------------------------------------
(* Inputs. *)

ConnIds == {"c1", "c2"}

(* Locale arguments of setLocaleOnConnection and of the RPC. *)
LocaleArgs == {"en", "en-US", "en_us", "fr", "xx"}

(* What the ambient contexts hold for a call: the connection id of the     *)
(* current RPC invocation (none, or the read throws), and the value of     *)
(* _publishConnectionId.                                                   *)
Envs == [inv : ConnIds \cup {Undefined, Throws}, pub : ConnIds \cup {Undefined}]

NoEnv == [inv |-> Undefined, pub |-> Undefined]

----------------------------------------------------------------------------
(* Connection Identity Resolver, server.ts:38-49. *)

getConnectionIdUnguarded(connection, env) ==
    IF env.inv = Throws
    THEN Throws
    ELSE IF env.inv # Undefined THEN env.inv ELSE env.pub

getConnectionId(connection, env) ==
    LET connectionId == connection   \* connection?.id
    IN IF env.inv = Throws
       THEN connectionId
       ELSE IF env.inv # Undefined THEN env.inv ELSE env.pub

(* server.ts:52-53 *)
getConnectionLocale(connection, env) ==
    Lookup(localesPerConnections, getConnectionId(connection, env))

(* The registry read of server.ts:53 for a known connection id. *)
getLocale(id) == Lookup(localesPerConnections, id)

IsOpen(c) == c \in opened \ closed

----------------------------------------------------------------------------
(* Initial state: the module has just been loaded. *)

(* The translationsHeaders the application may configure; the first is the *)
(* default of i18n.options.                                                *)
DefaultTranslationsHeaders == [h \in {"Cache-Control"} |-> "max-age=2628000"]

HeaderConfigs ==
    { DefaultTranslationsHeaders,
      [h \in {"Content-Type"} |-> "text/plain"],
      [h \in {"Last-Modified"} |-> -1] }

(* The call trees the event loop runs; each is rooted at an event of the   *)
(* transport or of a timer.                                                *)
MaxTrees == 2
MaxDepth == 2
TreeIds == 1..MaxTrees

(* A tree that has not started or has run to its end. *)
IdleTree == [status |-> "idle", kind |-> "none", conn |-> Undefined,
             frames |-> << >>, saved |-> Undefined]

Init ==
    /\ localesPerConnections = << >>
    /\ opened = {}
    /\ closed = {}
    /\ sameLocaleOnServerConnection = TRUE
    /\ translationsHeaders = DefaultTranslationsHeaders
    /\ cache = << >>
    /\ translations = << >>
    /\ now = 0
    /\ calls = EmptyBag
    /\ asyncStore = Undefined
    /\ trees = [t \in TreeIds |-> IdleTree]
    /\ handlers = {}
    /\ last = [op |-> "init"]

----------------------------------------------------------------------------
(* Connection Locale Registry. *)

(* Meteor.onConnection callback, server.ts:229-230.  The transport gives   *)
(* every connection a fresh id.                                            *)
onConnection(c) ==
    /\ c \notin opened
    /\ opened' = opened \cup {c}
    /\ localesPerConnections' = AssignKey(localesPerConnections, c, "")
    /\ last' = [op |-> "onConnection", id |-> c]
    /\ UNCHANGED <<closed, sameLocaleOnServerConnection, translationsHeaders>>
    /\ UNCHANGED deliveryVars
    /\ UNCHANGED contextVars

onCloseKeepsEntry(c) ==
    /\ IsOpen(c)
    /\ closed' = closed \cup {c}
    /\ localesPerConnections' = AssignKey(localesPerConnections, c, "")
    /\ last' = [op |-> "onClose", id |-> c, before |-> getLocale(c)]
    /\ UNCHANGED <<opened, sameLocaleOnServerConnection, translationsHeaders>>
    /\ UNCHANGED deliveryVars
    /\ UNCHANGED contextVars

(* connection.onClose callback, server.ts:231-233. *)
onClose(c) ==
    /\ IsOpen(c)
    /\ closed' = closed \cup {c}
    /\ localesPerConnections' = DeleteKey(localesPerConnections, c)
    /\ last' = [op |-> "onClose", id |-> c, before |-> getLocale(c)]
    /\ UNCHANGED <<opened, sameLocaleOnServerConnection, translationsHeaders>>
    /\ UNCHANGED deliveryVars
    /\ UNCHANGED contextVars

(* The body of i18n.setLocaleOnConnection, server.ts:133-138: the registry *)
(* after the call and whether it threw.                                    *)
setLocaleResult(reg, locale, connectionId) ==
    IF Lookup(reg, connectionId) # Undefined   \* typeof ... === 'string'
    THEN [registry |-> AssignKey(reg, connectionId, NormalizedOf[locale]),
          result |-> "ok"]
    ELSE [registry |-> reg, result |-> "NoSuchConnection"]

(* A call of i18n.setLocaleOnConnection(locale, connectionId), server.ts:  *)
(* 129-139; an omitted connectionId defaults to i18n._getConnectionId().   *)
setLocaleOnConnection(locale, idArg, env) ==
    LET connectionId ==
            IF idArg = Undefined THEN getConnectionId(Undefined, env) ELSE idArg
        r == setLocaleResult(localesPerConnections, locale, connectionId)
    IN /\ localesPerConnections' = r.registry
       /\ last' = [op |-> "setLocaleOnConnection", id |-> connectionId,
                   locale |-> locale, result |-> r.result,
                   before |-> localesPerConnections]
       /\ UNCHANGED <<opened, closed, sameLocaleOnServerConnection,
                      translationsHeaders>>
       /\ UNCHANGED deliveryVars
       /\ UNCHANGED contextVars

(* A read of i18n._getConnectionLocale(connection), server.ts:52-53. *)
readConnectionLocale(connection, env) ==
    /\ last' = [op |-> "_getConnectionLocale", connection |-> connection,
                env |-> env, result |-> getConnectionLocale(connection, env)]
    /\ UNCHANGED <<sameLocaleOnServerConnection, translationsHeaders>>
    /\ UNCHANGED registryVars
    /\ UNCHANGED deliveryVars
    /\ UNCHANGED contextVars

(* A call of i18n._getConnectionId(connection), server.ts:38-49. *)
resolveConnectionId(connection, env) ==
    /\ last' = [op |-> "_getConnectionId", connection |-> connection,
                env |-> env, result |-> getConnectionId(connection, env)]
    /\ UNCHANGED <<sameLocaleOnServerConnection, translationsHeaders>>
    /\ UNCHANGED registryVars
    /\ UNCHANGED deliveryVars
    /\ UNCHANGED contextVars

setServerLocaleIgnoresOption(caller, locale, pub) ==
    LET env == [inv |-> caller, pub |-> pub]
        connectionId == getConnectionId(caller, env)
        noop == \/ locale = NotAString
                \/ connectionId = Undefined
        r == IF noop
             THEN [registry |-> localesPerConnections, result |-> "noop"]
             ELSE setLocaleResult(localesPerConnections, locale, connectionId)
    IN /\ caller = Undefined \/ IsOpen(caller)
       /\ localesPerConnections' = r.registry
       /\ last' = [op |-> "setServerLocaleForConnection", caller |-> caller,
                   id |-> connectionId, locale |-> locale,
                   result |-> r.result, before |-> localesPerConnections]
       /\ UNCHANGED <<opened, closed, sameLocaleOnServerConnection,
                      translationsHeaders>>
       /\ UNCHANGED deliveryVars
       /\ UNCHANGED contextVars

setServerLocalePrefersPublish(caller, locale, pub) ==
    LET connectionId == IF pub # Undefined THEN pub ELSE caller
        noop == \/ locale = NotAString
                \/ ~sameLocaleOnServerConnection
                \/ connectionId = Undefined
        r == IF noop
             THEN [registry |-> localesPerConnections, result |-> "noop"]
             ELSE setLocaleResult(localesPerConnections, locale, connectionId)
    IN /\ caller = Undefined \/ IsOpen(caller)
       /\ localesPerConnections' = r.registry
       /\ last' = [op |-> "setServerLocaleForConnection", caller |-> caller,
                   id |-> connectionId, locale |-> locale,
                   result |-> r.result, before |-> localesPerConnections]
       /\ UNCHANGED <<opened, closed, sameLocaleOnServerConnection,
                      translationsHeaders>>
       /\ UNCHANGED deliveryVars
       /\ UNCHANGED contextVars

(* The RPC method universe.i18n.setServerLocaleForConnection, server.ts:   *)
(* 210-226, invoked by the transport for a message of connection `caller`  *)
(* (Undefined: a server-side call, this.connection is null).  The method   *)
(* runs inside DDP._CurrentInvocation of that connection.                  *)
setServerLocaleForConnection(caller, locale, pub) ==
    LET env == [inv |-> caller, pub |-> pub]
        connectionId == getConnectionId(caller, env)
        noop == \/ locale = NotAString
                \/ ~sameLocaleOnServerConnection
                \/ connectionId = Undefined
        r == IF noop
             THEN [registry |-> localesPerConnections, result |-> "noop"]
             ELSE setLocaleResult(localesPerConnections, locale, connectionId)
    IN /\ caller = Undefined \/ IsOpen(caller)
       /\ localesPerConnections' = r.registry
       /\ last' = [op |-> "setServerLocaleForConnection", caller |-> caller,
                   id |-> connectionId, locale |-> locale,
                   result |-> r.result, before |-> localesPerConnections]
       /\ UNCHANGED <<opened, closed, sameLocaleOnServerConnection,
                      translationsHeaders>>
       /\ UNCHANGED deliveryVars
       /\ UNCHANGED contextVars

(* i18n.setOptions({ sameLocaleOnServerConnection }) by the application. *)
setSameLocaleOption(flag) ==
    /\ sameLocaleOnServerConnection' = flag
    /\ last' = [op |-> "setOptions"]
    /\ UNCHANGED translationsHeaders
    /\ UNCHANGED registryVars
    /\ UNCHANGED deliveryVars
    /\ UNCHANGED contextVars

NextRegistry ==
    \/ \E c \in ConnIds : onConnection(c)
    \/ \E c \in ConnIds : onClose(c)
    \/ \E locale \in LocaleArgs, idArg \in ConnIds \cup {Undefined} :
          \E env \in IF idArg = Undefined THEN Envs ELSE {NoEnv} :
             setLocaleOnConnection(locale, idArg, env)
    \/ \E connection \in ConnIds \cup {Undefined}, env \in Envs :
          readConnectionLocale(connection, env)
    \/ \E connection \in ConnIds \cup {Undefined}, env \in Envs :
          resolveConnectionId(connection, env)
    \/ \E caller \in ConnIds \cup {Undefined},
          locale \in LocaleArgs \cup {NotAString},
          pub \in ConnIds \cup {Undefined} :
          setServerLocaleForConnection(caller, locale, pub)
    \/ \E flag \in BOOLEAN : setSameLocaleOption(flag)

SpecRegistry == Init /\ [][NextRegistry]_vars

----------------------------------------------------------------------------
(* The clock.  new Date().toUTCString() has a resolution of one second.    *)

MaxNow == 2
TicksPerSecond == 2

toUTCString(t) == t \div TicksPerSecond

tick ==
    /\ now < MaxNow
    /\ now' = now + 1
    /\ last' = [op |-> "tick"]
    /\ UNCHANGED <<cache, translations, calls>>
    /\ UNCHANGED <<sameLocaleOnServerConnection, translationsHeaders>>
    /\ UNCHANGED registryVars
    /\ UNCHANGED contextVars

----------------------------------------------------------------------------
(* Locale Cache, server.ts:55-71. *)

(* Names every plain object inherits from Object.prototype. *)
ObjectPrototypeKeys == {"constructor"}

(* Whether cache[locale] is truthy: an own entry or an inherited member. *)
HasMember(c, locale) == locale \in DOMAIN c \/ locale \in ObjectPrototypeKeys

(* cache[locale] when truthy. *)
Member(c, locale) ==
    IF locale \in DOMAIN c THEN c[locale] ELSE [inherited |-> locale]

NewCacheEntry(t) ==
    [updatedAt |-> toUTCString(t), getYML |-> "getYML", getJSON |-> "getJSON",
     getJS |-> "getJS"]

getCacheRefreshes(c, locale, t) ==
    IF locale \in {Undefined, ""}
    THEN [cache |-> c, entry |-> [all |-> c]]
    ELSE [cache |-> AssignKey(c, locale, NewCacheEntry(t)),
          entry |-> NewCacheEntry(t)]

(* i18n.getCache(locale) called at time t on cache c: the cache afterwards *)
(* and the value returned.                                                 *)
getCache(c, locale, t) ==
    IF locale \in {Undefined, ""}
    THEN [cache |-> c, entry |-> [all |-> c]]
    ELSE IF HasMember(c, locale)
         THEN [cache |-> c, entry |-> Member(c, locale)]
         ELSE [cache |-> AssignKey(c, locale, NewCacheEntry(t)),
               entry |-> NewCacheEntry(t)]

(* A call of i18n.getCache(locale) by the application. *)
readCache(locale) ==
    LET g == getCache(cache, locale, now)
    IN /\ cache' = g.cache
       /\ last' = [op |-> "getCache", locale |-> locale, result |-> g.entry]
       /\ UNCHANGED <<translations, now, calls>>
       /\ UNCHANGED <<sameLocaleOnServerConnection, translationsHeaders>>
       /\ UNCHANGED registryVars
       /\ UNCHANGED contextVars

----------------------------------------------------------------------------
(* Delivery Endpoint: the HTTP handler mounted at /universe/locale/,       *)
(* server.ts:141-207.  A request is the pathname below the mount point and *)
(* the parsed query; a query parameter that is absent is Undefined.        *)

JsFalse == "<false>"

IsLetter(ch) == ch \in LowerLetters \cup UpperLetters
IsLocaleChar(ch) == IsLetter(ch) \/ ch \in Digits \/ ch \in {"-", "_"}

(* The capture of the locale pattern of server.ts:159 in pathname: after   *)
(* an optional leading slash, two letters and then the longest run of      *)
(* letters, digits, hyphens and underscores, in either case; undefined     *)
(* when the pathname does not start that way.                              *)
matchLocale(pathname) ==
    LET cs == Chars(pathname)
        start == IF Len(cs) >= 1 /\ cs[1] = "/" THEN 2 ELSE 1
    IN IF /\ start + 1 <= Len(cs)
          /\ IsLetter(cs[start])
          /\ IsLetter(cs[start + 1])
       THEN LET stop == CHOOSE e \in (start + 1)..Len(cs) :
                           /\ \A i \in (start + 2)..e : IsLocaleChar(cs[i])
                           /\ e = Len(cs) \/ ~IsLocaleChar(cs[e + 1])
            IN Str(SubSeq(cs, start, stop))
       ELSE Undefined

Pathnames ==
    {"/en-US", "/en_us", "/fr.json", "/constructor", "/", "/e", "/7z"}

(* matchLocale over the pathnames of the model, computed once. *)
LocaleOfPath == [p \in Pathnames |-> matchLocale(p)]

Truthy(v) == v \notin {Undefined, "", JsFalse}

(* A destructuring default: `name = false`. *)
OrFalse(v) == IF v = Undefined THEN JsFalse ELSE v

(* { ...a, ...b } *)
Spread(a, b) ==
    [k \in DOMAIN a \cup DOMAIN b |-> IF k \in DOMAIN b THEN b[k] ELSE a[k]]

EmptyBody == [fn |-> "<none>"]
NoHeaders == << >>

Respond(c, status, headers, body) ==
    [cache |-> c,
     res |-> [status |-> status, headers |-> headers, body |-> body,
              next |-> FALSE]]

PassThrough(c) ==
    [cache |-> c,
     res |-> [status |-> 0, headers |-> NoHeaders, body |-> EmptyBody,
              next |-> TRUE]]

(* server.ts:172-206: the response for a locale whose cache entry has an   *)
(* updatedAt.                                                              *)
deliver(c, th, entry, locale, req) ==
    LET lastModified == [h \in {"Last-Modified"} |-> entry.updatedAt]
        disposition ==
            IF Truthy(OrFalse(req.attachment))
            THEN [h \in {"Content-Disposition"} |->
                    <<"attachment; filename=", locale, ".i18n.",
                      IF Truthy(req.type) THEN req.type ELSE "js">>]
            ELSE << >>
        headers == Spread(Spread(th, lastModified), disposition)
        contentType(v) == [h \in {"Content-Type"} |-> v]
    IN CASE req.type = "json" ->
              Respond(c, 200,
                  Spread(contentType("application/json; charset=utf-8"), headers),
                  [fn |-> entry.getJSON, locale |-> locale,
                   namespace |-> req.namespace, arg |-> OrFalse(req.diff)])
         [] req.type = "yml" ->
              Respond(c, 200,
                  Spread(contentType("text/yaml; charset=utf-8"), headers),
                  [fn |-> entry.getYML, locale |-> locale,
                   namespace |-> req.namespace, arg |-> OrFalse(req.diff)])
         [] OTHER ->
              Respond(c, 200,
                  Spread(contentType("application/javascript; charset=utf-8"),
                         headers),
                  [fn |-> entry.getJS, locale |-> locale,
                   namespace |-> req.namespace, arg |-> OrFalse(req.preload)])

handleLooksUpFirst(c, th, t, req) ==
    LET locale == LocaleOfPath[req.pathname]
    IN IF locale = Undefined
       THEN PassThrough(c)
       ELSE LET g == getCache(c, locale, t)
            IN IF Truthy(req.type) /\ req.type \notin {"js", "json", "yml"}
               THEN Respond(g.cache, 415, NoHeaders, EmptyBody)
               ELSE IF "updatedAt" \notin DOMAIN g.entry
                    THEN Respond(g.cache, 501, NoHeaders, EmptyBody)
                    ELSE deliver(g.cache, th, g.entry, locale, req)

(* The whole handler, server.ts:141-207, on cache c with the configured    *)
(* translationsHeaders th at time t.                                       *)
handle(c, th, t, req) ==
    IF Truthy(req.type) /\ req.type \notin {"js", "json", "yml"}
    THEN Respond(c, 415, NoHeaders, EmptyBody)
    ELSE LET locale == LocaleOfPath[req.pathname]
         IN IF locale = Undefined
            THEN PassThrough(c)
            ELSE LET g == getCache(c, locale, t)
                 IN IF "updatedAt" \notin DOMAIN g.entry
                    THEN Respond(g.cache, 501, NoHeaders, EmptyBody)
                    ELSE deliver(g.cache, th, g.entry, locale, req)

httpGet(req) ==
    LET r == handle(cache, translationsHeaders, now, req)
    IN /\ cache' = r.cache
       /\ last' = [op |-> "GET", req |-> req, res |-> r.res]
       /\ UNCHANGED <<translations, now, calls>>
       /\ UNCHANGED <<sameLocaleOnServerConnection, translationsHeaders>>
       /\ UNCHANGED registryVars
       /\ UNCHANGED contextVars

(* i18n.setOptions({ translationsHeaders }) by the application. *)
setTranslationsHeaders(th) ==
    /\ translationsHeaders' = th
    /\ last' = [op |-> "setOptions"]
    /\ UNCHANGED sameLocaleOnServerConnection
    /\ UNCHANGED registryVars
    /\ UNCHANGED deliveryVars
    /\ UNCHANGED contextVars

Types == {Undefined, "", "js", "json", "yml", "xml"}

(* namespace, diff and preload are passed to the formatter as they are. *)
Requests ==
    { [pathname |-> p, type |-> ty, attachment |-> a, namespace |-> q[1],
       diff |-> q[2], preload |-> q[3]] :
        p \in Pathnames \ {"/en-US"}, ty \in Types, a \in {Undefined, "1"},
        q \in {<<Undefined, Undefined, Undefined>>, <<"ns", "d", "p">>} }

NextHttp ==
    \/ tick
    \/ \E req \in Requests : httpGet(req)
    \/ \E locale \in {Undefined, "fr", "en_us", "constructor"} : readCache(locale)
    \/ \E th \in HeaderConfigs : setTranslationsHeaders(th)

SpecHttp == Init /\ [][NextHttp]_vars

----------------------------------------------------------------------------
(* Remote Locale Loader, i18n.loadLocale, server.ts:73-127.  A call runs   *)
(* in three steps, cut at its two awaits: up to the fetch (83-100), the    *)
(* settling of the fetch (100), and the settling of data.json() with the   *)
(* synchronous rest of the function (101-126).                             *)

MaxCalls == 1

defaultLocale == "en"

(* Bodies a remote host may answer with. *)
ResponseBodies ==
    {"<html>", "null", "{}", "{content:''}", "{content:'{A'}",
     "{content:'/*c*/{A}'}"}

(* data.json(): the parsed body, or the promise rejects. *)
parseResponse(body) == IF body = "<html>" THEN Throws ELSE body

(* const { content } = json || {} *)
contentOf(json) ==
    CASE json = "{content:''}" -> ""
      [] json = "{content:'{A'}" -> "{A"
      [] json = "{content:'/*c*/{A}'}" -> "/*c*/{A}"
      [] OTHER -> Undefined

stripJsonComments(text) == IF text = "/*c*/{A}" THEN "{A}" ELSE text

JSONparse(text) == IF text = "{A}" THEN "A" ELSE Throws

(* i18n.addTranslations(locale, object): merges into the store. *)
addTranslations(store, locale, object) ==
    AssignKey(store, locale, Lookup2(store, locale) \cup {object})

(* resolve(host, pathOnHost + normalizedLocale + '?type=' + type) *)
urlOf(normalizedLocale) == <<"hostUrl", "pathOnHost", normalizedLocale, "?type=json">>

(* What a call that has returned leaves to look at: how its promise        *)
(* settled, what it logged and requested, and what it showed observers.    *)
Returned(call, body, activeLocale, logged, merged, events) ==
    [op |-> "loadLocale", step |-> "return", locale |-> call.locale,
     normalizedLocale |-> call.normalizedLocale, silent |-> call.silent,
     requests |-> call.requests, body |-> body,
     activeLocale |-> activeLocale, outcome |-> "resolved",
     value |-> Undefined, logged |-> logged, merged |-> merged,
     events |-> events]

loadLocaleSkipsNormalize(locale, silent) ==
    /\ BagCardinality(calls) < MaxCalls
    /\ calls' = calls (+) SetToBag({
                    [pc |-> "fetch", locale |-> locale,
                     normalizedLocale |-> locale,
                     silent |-> silent, requests |-> 1]})
    /\ last' = [op |-> "loadLocale", step |-> "fetch",
                locale |-> locale, url |-> urlOf(locale)]
    /\ UNCHANGED <<cache, translations, now>>
    /\ UNCHANGED <<sameLocaleOnServerConnection, translationsHeaders>>
    /\ UNCHANGED registryVars
    /\ UNCHANGED contextVars

(* server.ts:83-100: normalize, build the URL, issue the fetch. *)
loadLocale(locale, silent) ==
    LET normalizedLocale == NormalizedOf[locale]
    IN /\ BagCardinality(calls) < MaxCalls
       /\ IF normalizedLocale = Undefined
          THEN /\ calls' = calls
               /\ last' = Returned([locale |-> locale,
                                     normalizedLocale |-> Undefined,
                                     silent |-> silent, requests |-> 0],
                                    Undefined, Undefined,
                                    "Unrecognized locale", FALSE, << >>)
          ELSE /\ calls' = calls (+) SetToBag({
                              [pc |-> "fetch", locale |-> locale,
                               normalizedLocale |-> normalizedLocale,
                               silent |-> silent, requests |-> 1]})
               /\ last' = [op |-> "loadLocale", step |-> "fetch",
                           locale |-> locale, url |-> urlOf(normalizedLocale)]
       /\ UNCHANGED <<cache, translations, now>>
       /\ UNCHANGED <<sameLocaleOnServerConnection, translationsHeaders>>
       /\ UNCHANGED registryVars
       /\ UNCHANGED contextVars

fetchSettlesRetrying(call, ok) ==
    /\ BagIn(call, calls)
    /\ call.pc = "fetch"
    /\ IF ok
       THEN /\ calls' = (calls (-) SetToBag({call}))
                            (+) SetToBag({[call EXCEPT !.pc = "json"]})
            /\ last' = [op |-> "loadLocale", step |-> "response",
                        locale |-> call.locale]
       ELSE /\ calls' = (calls (-) SetToBag({call}))
                            (+) SetToBag({[call EXCEPT !.requests = 2]})
            /\ last' = Returned([call EXCEPT !.requests = 2], Undefined,
                                 Undefined, "fetch failed", FALSE, << >>)
    /\ UNCHANGED <<cache, translations, now>>
    /\ UNCHANGED <<sameLocaleOnServerConnection, translationsHeaders>>
    /\ UNCHANGED registryVars
    /\ UNCHANGED contextVars

(* server.ts:100 and 122-126: the fetch resolves with a response, or       *)
(* rejects and the error is logged.                                        *)
fetchSettles(call, ok) ==
    /\ BagIn(call, calls)
    /\ call.pc = "fetch"
    /\ IF ok
       THEN /\ calls' = (calls (-) SetToBag({call}))
                            (+) SetToBag({[call EXCEPT !.pc = "json"]})
            /\ last' = [op |-> "loadLocale", step |-> "response",
                        locale |-> call.locale]
       ELSE /\ calls' = calls (-) SetToBag({call})
            /\ last' = Returned(call, Undefined, Undefined, "fetch failed",
                                 FALSE, << >>)
    /\ UNCHANGED <<cache, translations, now>>
    /\ UNCHANGED <<sameLocaleOnServerConnection, translationsHeaders>>
    /\ UNCHANGED registryVars
    /\ UNCHANGED contextVars

notifyIgnoresSilent(c, store, normalizedLocale, silent, activeLocale) ==
    IF silent
    THEN <<[event |-> "_emitChange", cache |-> c, translations |-> store]>>
    ELSE IF \/ startsWith(activeLocale, normalizedLocale)
            \/ startsWith(defaultLocale, normalizedLocale)
         THEN <<[event |-> "_emitChange", cache |-> c, translations |-> store]>>
         ELSE << >>

(* server.ts:109-118: what observers of _emitChange are shown, if called.  *)
notify(c, store, normalizedLocale, silent, activeLocale) ==
    IF /\ ~silent
       /\ \/ startsWith(activeLocale, normalizedLocale)
          \/ startsWith(defaultLocale, normalizedLocale)
    THEN << [event |-> "_emitChange", cache |-> c, translations |-> store] >>
    ELSE << >>

(* server.ts:104-118: merge, drop the cache entry, notify. *)
merge(c, store, call, object, activeLocale) ==
    LET merged == addTranslations(store, call.normalizedLocale, object)
        dropped == DeleteKey(c, call.normalizedLocale)
    IN [cache |-> dropped, translations |-> merged, logged |-> "",
        merged |-> TRUE,
        events |-> notify(dropped, merged, call.normalizedLocale, call.silent,
                          activeLocale)]

Failed(c, store, logged) ==
    [cache |-> c, translations |-> store, logged |-> logged, merged |-> FALSE,
     events |-> << >>]

(* server.ts:101-124 on the body the host answered with. *)
settle(c, store, call, body, activeLocale) ==
    LET json == parseResponse(body)
        content == contentOf(json)
    IN IF json = Throws
       THEN Failed(c, store, "response is not JSON")
       ELSE IF ~Truthy(content)
            THEN Failed(c, store, "missing content")
            ELSE LET object == JSONparse(stripJsonComments(content))
                 IN IF object = Throws
                    THEN Failed(c, store, "content is not JSON")
                    ELSE merge(c, store, call, object, activeLocale)

(* server.ts:101-126: data.json() settles and the function runs to its     *)
(* return without suspending again.  activeLocale is what i18n.getLocale() *)
(* returns; it is read at line 110 only, after a merge that is not silent. *)
jsonSettles(call, body, activeLocale) ==
    /\ BagIn(call, calls)
    /\ call.pc = "json"
    /\ LET r == settle(cache, translations, call, body, activeLocale)
       IN /\ cache' = r.cache
          /\ translations' = r.translations
          /\ last' = Returned(call, body,
                               IF r.merged /\ ~call.silent
                               THEN activeLocale ELSE Undefined,
                               r.logged, r.merged, r.events)
    /\ calls' = calls (-) SetToBag({call})
    /\ UNCHANGED now
    /\ UNCHANGED <<sameLocaleOnServerConnection, translationsHeaders>>
    /\ UNCHANGED registryVars
    /\ UNCHANGED contextVars

LoadLocales == {"en", "en_us", "xx"}
ActiveLocales == {"en-US", "fr"}

PlainRequests ==
    { [pathname |-> p, type |-> Undefined, attachment |-> Undefined,
       namespace |-> Undefined, diff |-> Undefined, preload |-> Undefined] :
        p \in {"/en-US", "/en_us"} }

NextLoader ==
    \/ tick
    \/ \E req \in PlainRequests : httpGet(req)
    \/ \E locale \in {"en", "en-US"} : readCache(locale)
    \/ \E locale \in LoadLocales, silent \in BOOLEAN : loadLocale(locale, silent)
    \/ \E call \in BagToSet(calls), ok \in BOOLEAN : fetchSettles(call, ok)
    \/ \E call \in BagToSet(calls), body \in ResponseBodies,
          activeLocale \in ActiveLocales :
          jsonSettles(call, body, activeLocale)

SpecLoader == Init /\ [][NextLoader]_vars

----------------------------------------------------------------------------
(* Context Propagator, server.ts:20-36, and the patched publish entry      *)
(* points, server.ts:236-253.                                              *)
(*                                                                         *)
(* AsyncLocalStorage keeps one store per execution context.  run(value,    *)
(* fn) sets it for fn and puts the previous one back when fn is done; a    *)
(* continuation created at an await resumes with the store that was        *)
(* current when it was created; an event of the transport or of a timer    *)
(* starts with no store.  One tree runs at a time: the others are idle or  *)
(* suspended at an await.                                                  *)

Values == ConnIds

Running(t) == trees[t].status = "running"
NoneRunning == \A t \in TreeIds : ~Running(t)

UnchangedOutsideContext ==
    /\ UNCHANGED <<sameLocaleOnServerConnection, translationsHeaders>>
    /\ UNCHANGED registryVars
    /\ UNCHANGED deliveryVars

(* An event starts a call tree of application code. *)
startTree(t) ==
    /\ NoneRunning
    /\ trees[t].status = "idle"
    /\ trees' = [trees EXCEPT ![t] = [IdleTree EXCEPT !.status = "running",
                                                      !.kind = "plain"]]
    /\ asyncStore' = Undefined
    /\ last' = [op |-> "start"]
    /\ UNCHANGED handlers
    /\ UnchangedOutsideContext

(* server.ts:30-32, withValue: context.run(value, ...) entered. *)
withValueEnter(t, value) ==
    /\ Running(t)
    /\ trees[t].kind = "plain"
    /\ Len(trees[t].frames) < MaxDepth
    /\ trees' = [trees EXCEPT ![t].frames =
                     Append(@, [value |-> value, outer |-> asyncStore])]
    /\ asyncStore' = value
    /\ last' = [op |-> "withValue", step |-> "enter", value |-> value]
    /\ UNCHANGED handlers
    /\ UnchangedOutsideContext

withValueReturnKeepsStore(t) ==
    /\ Running(t)
    /\ trees[t].frames # << >>
    /\ trees' = [trees EXCEPT ![t].frames = SubSeq(@, 1, Len(@) - 1)]
    /\ asyncStore' = asyncStore
    /\ last' = [op |-> "withValue", step |-> "return"]
    /\ UNCHANGED handlers
    /\ UnchangedOutsideContext

(* server.ts:30-32, withValue: fn is done and context.run returns. *)
withValueReturn(t) ==
    /\ Running(t)
    /\ trees[t].frames # << >>
    /\ trees' = [trees EXCEPT ![t].frames = SubSeq(@, 1, Len(@) - 1)]
    /\ asyncStore' = trees[t].frames[Len(trees[t].frames)].outer
    /\ last' = [op |-> "withValue", step |-> "return"]
    /\ UNCHANGED handlers
    /\ UnchangedOutsideContext

(* server.ts:26-28, get: context.getStore().  `after` is what the event    *)
(* loop did just before the read.                                          *)
get(t) ==
    /\ Running(t)
    /\ trees[t].kind = "plain"
    /\ last' = [op |-> "get", tree |-> t, result |-> asyncStore,
                after |-> last.op]
    /\ UNCHANGED contextVars
    /\ UnchangedOutsideContext

(* The running tree awaits: its continuation keeps the current store, and  *)
(* the event loop is free to run another tree.                             *)
suspend(t) ==
    /\ Running(t)
    /\ trees' = [trees EXCEPT ![t].status = "suspended", ![t].saved = asyncStore]
    /\ asyncStore' = Undefined
    /\ last' = [op |-> "suspend"]
    /\ UNCHANGED handlers
    /\ UnchangedOutsideContext

(* The awaited promise settles and the continuation runs. *)
resume(t) ==
    /\ NoneRunning
    /\ trees[t].status = "suspended"
    /\ trees' = [trees EXCEPT ![t].status = "running",
                              ![t].saved = Undefined]
    /\ asyncStore' = trees[t].saved
    /\ last' = [op |-> "resume"]
    /\ UNCHANGED handlers
    /\ UnchangedOutsideContext

(* The tree's code runs to its end, every withValue having returned. *)
finish(t) ==
    /\ Running(t)
    /\ trees[t].frames = << >>
    /\ trees' = [trees EXCEPT ![t] = IdleTree]
    /\ asyncStore' = Undefined
    /\ last' = [op |-> "finish"]
    /\ UNCHANGED handlers
    /\ UnchangedOutsideContext

PublicationNames == {"p1"}

(* server.ts:236-253: a call of the patched Meteor.publish(name, func) or  *)
(* Meteor.server.publish(name, func).  `this` is Meteor or Meteor.server,  *)
(* neither of which has a connection, so withValue is entered with         *)
(* undefined, around the registration of the handler; it has returned, and *)
(* the store is what it was, when the call returns.  The handler that is   *)
(* registered calls func and nothing else.                                 *)
patchedPublish(name) ==
    LET value == Undefined   \* this?.connection?.id
        during == value
        after == asyncStore
    IN /\ handlers' = handlers \cup {name}
       /\ asyncStore' = after
       /\ last' = [op |-> "publish", name |-> name, value |-> during]
       /\ UNCHANGED trees
       /\ UnchangedOutsideContext

(* The transport runs the registered handler for a subscription of         *)
(* connection c, server.ts:241-243: func.apply(this, args), in the         *)
(* execution context of the transport's event.                             *)
runHandler(t, c, name) ==
    /\ NoneRunning
    /\ trees[t].status = "idle"
    /\ name \in handlers
    /\ IsOpen(c)
    /\ trees' = [trees EXCEPT ![t] = [IdleTree EXCEPT !.status = "running",
                                                      !.kind = "publish",
                                                      !.conn = c]]
    /\ asyncStore' = Undefined
    /\ last' = [op |-> "runHandler", tree |-> t, conn |-> c, name |-> name]
    /\ UNCHANGED handlers
    /\ UnchangedOutsideContext

(* func, running for a subscription and in no RPC invocation, asks for its *)
(* connection and its locale: i18n._getConnectionId() and                  *)
(* i18n._getConnectionLocale(), server.ts:38-53.                           *)
resolveInHandler(t) ==
    LET env == [inv |-> Undefined, pub |-> asyncStore]
    IN /\ Running(t)
       /\ trees[t].kind = "publish"
       /\ last' = [op |-> "resolveInHandler", tree |-> t,
                   conn |-> trees[t].conn,
                   id |-> getConnectionId(Undefined, env),
                   locale |-> getConnectionLocale(Undefined, env)]
       /\ UNCHANGED contextVars
       /\ UnchangedOutsideContext

NextContext ==
    \/ \E t \in TreeIds : startTree(t)
    \/ \E t \in TreeIds, value \in Values : withValueEnter(t, value)
    \/ \E t \in TreeIds : withValueReturn(t)
    \/ \E t \in TreeIds : get(t)
    \/ \E t \in TreeIds : suspend(t)
    \/ \E t \in TreeIds : resume(t)
    \/ \E t \in TreeIds : finish(t)

SpecContext == Init /\ [][NextContext]_vars

(* Connections, their locales, publications and the subscriptions the      *)
(* transport runs for them.                                                *)
NextPublish ==
    \/ \E c \in ConnIds : onConnection(c)
    \/ \E c \in ConnIds : onClose(c)
    \/ \E locale \in {"fr", "en_us"}, c \in ConnIds :
          setLocaleOnConnection(locale, c, NoEnv)
    \/ \E name \in PublicationNames : patchedPublish(name)
    \/ \E t \in TreeIds, c \in ConnIds, name \in PublicationNames :
          runHandler(t, c, name)
    \/ \E t \in TreeIds : resolveInHandler(t)
    \/ \E t \in TreeIds : suspend(t)
    \/ \E t \in TreeIds : resume(t)
    \/ \E t \in TreeIds : finish(t)

SpecPublish == Init /\ [][NextPublish]_vars

(* All operations together.  The registry and the resolver share no state  *)
(* with the cache, the loader and the HTTP endpoint, so the properties of   *)
(* each part are checked under its own specification above.                *)
Next == NextRegistry \/ NextHttp \/ NextLoader \/ NextContext \/ NextPublish

Spec == Init /\ [][Next]_vars

----------------------------------------------------------------------------
(* Claims about the registry and the resolver, checked under SpecRegistry. *)

RecognizedLocales == {LOCALES[k] : k \in DOMAIN LOCALES}

(* C1: a setLocaleOnConnection call fails with NoSuchConnection, leaving   *)
(* the registry as it was, when its connection was never opened or is      *)
(* closed; for an open connection it succeeds and the connection's locale  *)
(* is then the normalized form of the argument.                            *)
C1_SetLocaleContract ==
    last.op = "setLocaleOnConnection" =>
        IF IsOpen(last.id)
        THEN /\ last.result = "ok"
             /\ getLocale(last.id) = NormalizedOf[last.locale]
        ELSE /\ last.result = "NoSuchConnection"
             /\ localesPerConnections = last.before

(* C2: right after onConnection(c) the locale of c is the empty string;    *)
(* right after the onClose callback of c it is undefined, whatever was set *)
(* on c before.                                                            *)
C2_OpenCloseLocale ==
    /\ last.op = "onConnection" => getLocale(last.id) = ""
    /\ last.op = "onClose" => getLocale(last.id) = Undefined

C2_Witness ==
    /\ last.op = "onClose"
    /\ last.before \in RecognizedLocales
    /\ getLocale(last.id) = Undefined

(* C3: _getConnectionId returns the explicit connection's id when one is   *)
(* given, else the id of the ambient RPC invocation's connection when      *)
(* there is one, else the value of _publishConnectionId (stated for calls  *)
(* whose read of the ambient invocation does not throw).                   *)
C3_ResolvePriority ==
    (last.op = "_getConnectionId" /\ last.env.inv # Throws) =>
        last.result =
            IF last.connection # Undefined THEN last.connection
            ELSE IF last.env.inv # Undefined THEN last.env.inv
            ELSE last.env.pub

----------------------------------------------------------------------------
(* Claims about the cache, the loader and the HTTP endpoint.               *)

(* The locale a GET asks for, or Undefined. *)
RequestedLocale(l) == LocaleOfPath[l.req.pathname]

IsMergeOf(l, L) ==
    /\ l.op = "loadLocale"
    /\ l.step = "return"
    /\ l.merged
    /\ l.normalizedLocale = L

IsGetOf(l, L) ==
    \/ l.op = "getCache" /\ l.locale = L
    \/ /\ l.op = "GET"
       /\ ~(Truthy(l.req.type) /\ l.req.type \notin {"js", "json", "yml"})
       /\ RequestedLocale(l) = L

(* The locale strings of the model: those that name no inherited member of *)
(* a plain object.                                                         *)
LocaleStrings == Strings \ ObjectPrototypeKeys

(* C4: for every locale L, a get of L when the cache has no entry for L    *)
(* creates one stamped with the time of the get, and an entry is created   *)
(* by nothing else; an existing entry of L stays the identical entry, same *)
(* updatedAt, through every step that is not a merge of L by the loader    *)
(* (gets of L at later times, gets and merges of other locales), and a get *)
(* returns it; the merge of L removes it.                                  *)
C4_CacheEntryLifetime ==
    [][\A L \in LocaleStrings :
          /\ (L \notin DOMAIN cache /\ IsGetOf(last', L)) =>
                /\ L \in DOMAIN cache'
                /\ cache'[L].updatedAt = toUTCString(now)
          /\ (L \notin DOMAIN cache /\ L \in DOMAIN cache') => IsGetOf(last', L)
          /\ (L \in DOMAIN cache /\ ~IsMergeOf(last', L)) =>
                /\ L \in DOMAIN cache'
                /\ cache'[L] = cache[L]
          /\ (last'.op = "getCache" /\ last'.locale = L) =>
                last'.result = cache'[L]
          /\ IsMergeOf(last', L) => L \notin DOMAIN cache'
      ]_vars

(* A get of en-US at a later second returns the entry that was created     *)
(* after the loader's merge of en-US, not refreshed.                       *)
C4_Witness ==
    /\ last.op = "getCache"
    /\ last.locale = "en-US"
    /\ Lookup2(translations, "en-US") # {}
    /\ last.result.updatedAt < toUTCString(now)
    /\ "en" \in DOMAIN cache

(* C5: a GET for a well-formed locale for which the cache holds no entry   *)
(* when the request arrives is answered 501 with no body (stated for       *)
(* requests whose type is absent or recognised).                           *)
C5_NeverLoaded501 ==
    [][(/\ last'.op = "GET"
        /\ last'.req.type \in {Undefined, "js", "json", "yml"}
        /\ RequestedLocale(last') # Undefined
        /\ RequestedLocale(last') \notin DOMAIN cache) =>
            /\ last'.res.status = 501
            /\ last'.res.body = EmptyBody
      ]_vars

(* C6 as claimed: a GET for a well-formed locale whose type parameter is   *)
(* present and not js, json or yml is answered 415 with an empty body and  *)
(* leaves the cache as it was.                                             *)
C6_Original ==
    [][(/\ last'.op = "GET"
        /\ RequestedLocale(last') # Undefined
        /\ last'.req.type # Undefined
        /\ last'.req.type \notin {"js", "json", "yml"}) =>
            /\ last'.res.status = 415
            /\ last'.res.body = EmptyBody
            /\ cache' = cache
      ]_vars

(* C6 as amended: a GET for a well-formed locale whose type parameter is   *)
(* present with a non-empty value that is not js, json or yml is answered  *)
(* 415 with no header and an empty body, whatever the cache holds, and     *)
(* leaves the cache as it was.                                             *)
C6_UnsupportedType415 ==
    [][(/\ last'.op = "GET"
        /\ RequestedLocale(last') # Undefined
        /\ last'.req.type \notin {Undefined, ""}
        /\ last'.req.type \notin {"js", "json", "yml"}) =>
            /\ last'.res.status = 415
            /\ last'.res.headers = NoHeaders
            /\ last'.res.body = EmptyBody
            /\ ~last'.res.next
            /\ cache' = cache
      ]_vars

(* A 415 for a locale that has a cache entry. *)
C6_Witness ==
    /\ last.op = "GET"
    /\ last.req.type = "xml"
    /\ last.req.pathname = "/en_us"
    /\ last.res.status = 415
    /\ "en_us" \in DOMAIN cache

ContentTypeOf(type) ==
    CASE type = "json" -> "application/json; charset=utf-8"
      [] type = "yml" -> "text/yaml; charset=utf-8"
      [] OTHER -> "application/javascript; charset=utf-8"

FormatterOutput(req, locale) ==
    CASE req.type = "json" ->
            [fn |-> "getJSON", locale |-> locale, namespace |-> req.namespace,
             arg |-> OrFalse(req.diff)]
      [] req.type = "yml" ->
            [fn |-> "getYML", locale |-> locale, namespace |-> req.namespace,
             arg |-> OrFalse(req.diff)]
      [] OTHER ->
            [fn |-> "getJS", locale |-> locale, namespace |-> req.namespace,
             arg |-> OrFalse(req.preload)]

(* C7: a GET for a well-formed locale L that has a cache entry, with type  *)
(* js, json, yml or absent, is answered 200 with the Content-Type of the   *)
(* type, Last-Modified equal to the entry's updatedAt and the matching     *)
(* formatter's output for L as body, whatever translationsHeaders are      *)
(* configured.                                                             *)
C7_Delivery200 ==
    (/\ last.op = "GET"
     /\ last.req.type \in {Undefined, "js", "json", "yml"}
     /\ RequestedLocale(last) # Undefined
     /\ RequestedLocale(last) \in DOMAIN cache) =>
        /\ last.res.status = 200
        /\ last.res.headers["Content-Type"] = ContentTypeOf(last.req.type)
        /\ last.res.headers["Last-Modified"] =
              cache[RequestedLocale(last)].updatedAt
        /\ last.res.body = FormatterOutput(last.req, RequestedLocale(last))

(* C8: a GET whose pathname does not match the locale pattern is passed    *)
(* through (next is called), whatever its query: the handler writes no     *)
(* status, header or body and leaves the cache as it was.                  *)
C8_PassThrough ==
    [][(last'.op = "GET" /\ RequestedLocale(last') = Undefined) =>
            /\ last'.res.next
            /\ last'.res.status = 0
            /\ last'.res.headers = NoHeaders
            /\ last'.res.body = EmptyBody
            /\ cache' = cache
      ]_vars

(* C9: the step of a load call that merges content for locale L also       *)
(* removes the cache entry of L, and what observers of the change          *)
(* notification are shown is the store with the content merged and the     *)
(* cache without the entry of L; every other cache entry is left as it     *)
(* was, and the step adds none.  Once the merge has happened no HTTP read  *)
(* of L is served an updatedAt of before it: the read that follows the     *)
(* merge, whatever spelling of L its path uses, finds no entry and is      *)
(* answered from the one it creates.                                       *)
C9_MergeInvalidates ==
    [][/\ (last'.op = "loadLocale" /\ last'.step = "return" /\ last'.merged) =>
            LET L == last'.normalizedLocale
            IN /\ Lookup2(translations', L) # {}
               /\ L \notin DOMAIN cache'
               /\ DOMAIN cache' = DOMAIN cache \ {L}
               /\ \A K \in DOMAIN cache' : cache'[K] = cache[K]
               /\ \A i \in DOMAIN last'.events :
                     /\ L \notin DOMAIN last'.events[i].cache
                     /\ last'.events[i].cache = cache'
                     /\ last'.events[i].translations = translations'
       /\ (/\ last.op = "loadLocale" /\ last.step = "return" /\ last.merged
           /\ last'.op = "GET"
           /\ RequestedLocale(last') \in Strings
           /\ NormalizedOf[RequestedLocale(last')] = last.normalizedLocale
           /\ last'.res.status = 200) =>
            /\ RequestedLocale(last') \notin DOMAIN cache
            /\ last'.res.headers["Last-Modified"] = toUTCString(now)
      ]_vars

FailingBodies ==
    {"<html>", "null", "{}", "{content:''}", "{content:'{A'}"}

(* C10: a load call whose fetch fails, or whose response is not JSON, has  *)
(* no content, or has content that cannot be parsed, resolves with         *)
(* undefined, and no step of it changes the cache or the translation       *)
(* store; it has issued its one request and is no longer in flight.        *)
C10_FailedLoadChangesNothing ==
    [][last'.op = "loadLocale" =>
          /\ last'.step \in {"fetch", "response"} =>
                cache' = cache /\ translations' = translations
          /\ (/\ last'.step = "return"
              /\ last'.normalizedLocale # Undefined
              /\ last'.body \in FailingBodies \cup {Undefined}) =>
                /\ last'.outcome = "resolved"
                /\ last'.value = Undefined
                /\ ~last'.merged
                /\ last'.events = << >>
                /\ cache' = cache
                /\ translations' = translations
                /\ last'.requests = 1
                /\ BagCardinality(calls') = BagCardinality(calls) - 1
      ]_vars

(* A load whose content could not be parsed returned with the cache and    *)
(* the store, both non-empty, as they were.                                *)
C10_Witness ==
    /\ last.op = "loadLocale"
    /\ last.step = "return"
    /\ last.body = "{content:'{A'}"
    /\ last.logged = "content is not JSON"
    /\ cache # << >>
    /\ translations # << >>

----------------------------------------------------------------------------
(* C11: a load of a locale that normalization does not recognise returns   *)
(* at once: its promise resolves with no result, an error is logged, no    *)
(* remote request is issued, no call stays in flight, no change            *)
(* notification is emitted, and the Locale Cache and the translation store *)
(* are as they were.                                                       *)
C11_UnrecognizedLoad ==
    [][(/\ last'.op = "loadLocale"
        /\ last' # last
        /\ last'.step \in {"fetch", "return"}
        /\ NormalizedOf[last'.locale] = Undefined)
       => /\ last'.step = "return"
          /\ last'.outcome = "resolved"
          /\ last'.value = Undefined
          /\ last'.logged = "Unrecognized locale"
          /\ last'.requests = 0
          /\ last'.events = << >>
          /\ calls' = calls
          /\ cache' = cache
          /\ translations' = translations]_vars

(* A load of "xx" returned while the cache and the store were non-empty.   *)
C11_Witness ==
    /\ last.op = "loadLocale"
    /\ last.step = "return"
    /\ last.locale = "xx"
    /\ last.requests = 0
    /\ cache # << >>
    /\ translations # << >>

(* C12: the RPC method is a silent no-op whenever its argument is not a    *)
(* string, or sameLocaleOnServerConnection is off, or no connection id is  *)
(* resolved: it does not throw and the registry is the registry of before  *)
(* the call, so the caller's locale reads as it did.                       *)
C12_RpcNoop ==
    (/\ last.op = "setServerLocaleForConnection"
     /\ \/ last.locale = NotAString
        \/ ~sameLocaleOnServerConnection
        \/ last.id = Undefined)
    => /\ last.result = "noop"
       /\ localesPerConnections = last.before
       /\ last.caller # Undefined
            => getLocale(last.caller) = Lookup(last.before, last.caller)

(* With the option off, a call from c1 with a string left c1 on "fr".      *)
C12_Witness ==
    /\ last.op = "setServerLocaleForConnection"
    /\ ~sameLocaleOnServerConnection
    /\ last.caller = "c1"
    /\ last.locale = "en"
    /\ last.result = "noop"
    /\ getLocale("c1") = "fr"

(* C13: an RPC call with a string argument from a connection that is open  *)
(* never fails with "no connection under id", whatever setLocale and RPC   *)
(* calls were made on that connection before.                              *)
C13_OpenConnectionNeverFails ==
    (/\ last.op = "setServerLocaleForConnection"
     /\ last.caller # Undefined
     /\ last.locale # NotAString)
    => last.result # "NoSuchConnection"

(* C16: _getConnectionId never throws.  With no explicit connection, no    *)
(* RPC invocation and no propagated value it returns no connection, and so *)
(* it does when reading the invocation fails instead; a failed read leaves *)
(* the explicit connection's id as the result.                             *)
C16_ResolveNeverThrows ==
    last.op = "_getConnectionId"
    => /\ last.result # Throws
       /\ (/\ last.connection = Undefined
           /\ last.env.inv \in {Undefined, Throws}
           /\ last.env.pub = Undefined) => last.result = Undefined
       /\ (last.env.inv = Throws /\ last.env.pub = Undefined)
            => last.result = last.connection

(* The read of the invocation threw, nothing else was there to read, and   *)
(* the call returned no connection.                                        *)
C16_Witness ==
    /\ last.op = "_getConnectionId"
    /\ last.env.inv = Throws
    /\ last.env.pub = Undefined
    /\ last.connection = Undefined
    /\ last.result = Undefined

(* C17: in every reachable state the registry has an entry for exactly the *)
(* open connections, and every entry is the empty string or a recognised   *)
(* locale.                                                                 *)
C17_RegistryInvariant ==
    /\ DOMAIN localesPerConnections = opened \ closed
    /\ \A c \in DOMAIN localesPerConnections :
          localesPerConnections[c] \in {""} \cup RecognizedLocales

(* C18: every key of the Locale Cache is a normalized locale string.       *)
C18_CacheKeysNormalized ==
    \A k \in DOMAIN cache : k \in Strings /\ NormalizedOf[k] = k

(* C19: a load call emits at most one change notification, and emits one   *)
(* exactly when content was received and merged, the call is not silent,   *)
(* and the normalized locale is a prefix of the active locale or of the    *)
(* default locale.                                                         *)
C19_NotifyExactlyWhen ==
    (last.op = "loadLocale" /\ last.step = "return")
    => /\ Len(last.events) <= 1
       /\ last.events # << >>
            <=> /\ last.body \in ResponseBodies \ FailingBodies
                /\ NormalizedOf[last.locale] # Undefined
                /\ ~last.silent
                /\ \/ startsWith(last.activeLocale, NormalizedOf[last.locale])
                   \/ startsWith(defaultLocale, NormalizedOf[last.locale])

(* A load of "en_us" notified while the active locale was "en-US", and a   *)
(* silent one would not have: the record is of a call that was not silent. *)
C19_Witness ==
    /\ last.op = "loadLocale"
    /\ last.step = "return"
    /\ last.locale = "en_us"
    /\ ~last.silent
    /\ last.activeLocale = "en-US"
    /\ Len(last.events) = 1

(* C20: an RPC call made from connection c changes at most the registry    *)
(* entry of c: the other entries, the set of registered connections, the   *)
(* open and closed connections and the Locale Cache are unchanged.         *)
C20_ConnectionIsolation ==
    [][(/\ last'.op = "setServerLocaleForConnection"
        /\ last' # last
        /\ last'.caller # Undefined)
       => /\ DOMAIN localesPerConnections' = DOMAIN localesPerConnections
          /\ \A k \in DOMAIN localesPerConnections \ {last'.caller} :
                localesPerConnections'[k] = localesPerConnections[k]
          /\ opened' = opened
          /\ closed' = closed
          /\ cache' = cache]_vars

(* c1 moved to "fr" by its own call while c2 stayed on "en".               *)
C20_Witness ==
    /\ last.op = "setServerLocaleForConnection"
    /\ last.caller = "c1"
    /\ last.locale = "fr"
    /\ last.result = "ok"
    /\ getLocale("c1") = "fr"
    /\ getLocale("c2") = "en"
    /\ Lookup(last.before, "c1") # "fr"

----------------------------------------------------------------------------
(* Claims about the Context Propagator, checked under SpecContext, and     *)
(* about the publish entry points, checked under SpecPublish.              *)

(* The value of the innermost withValue that encloses the code of tree t,  *)
(* or no value.                                                            *)
Innermost(t) ==
    IF trees[t].frames = << >>
    THEN Undefined
    ELSE trees[t].frames[Len(trees[t].frames)].value

(* C14: while a subscription callback runs for connection c, outside any   *)
(* RPC invocation, _getConnectionId() without a connection returns c and   *)
(* the locale resolved is the locale registered for c.                     *)
C14_PublishContextHoldsConnection ==
    last.op = "resolveInHandler"
    => /\ last.id = last.conn
       /\ last.locale = getLocale(last.conn)

(* C15: in every interleaving of call trees, get() in a tree returns the   *)
(* value of the innermost withValue enclosing it in that tree, the outer   *)
(* one again after the inner one has returned, also after the tree was     *)
(* suspended and other trees ran; outside every withValue it returns no    *)
(* value.  The tree that runs sees its own scope, and a suspended tree     *)
(* keeps its own.                                                          *)
C15_ScopedGet ==
    /\ last.op = "get" => last.result = Innermost(last.tree)
    /\ \A t \in TreeIds :
          /\ Running(t) => asyncStore = Innermost(t)
          /\ trees[t].status = "suspended" => trees[t].saved = Innermost(t)

(* Tree 1 read "c1" right after it resumed inside withValue("c1"), while   *)
(* tree 2 was suspended inside withValue("c2").                            *)
C15_Witness ==
    /\ last.op = "get"
    /\ last.after = "resume"
    /\ last.tree = 1
    /\ last.result = "c1"
    /\ Len(trees[1].frames) = 1
    /\ trees[2].status = "suspended"
    /\ trees[2].saved = "c2"

====
